---- MODULE Spec2Model ----
(***************************************************************************)
(* State-machine model of src/main.py: the MozioAPIClient class and the    *)
(* search -> book -> cancel workflow of the __main__ block.  The server is *)
(* the environment: every HTTP response is drawn nondeterministically.     *)
(***************************************************************************)
EXTENDS Integers, Sequences, FiniteSets, TLC

VARIABLES
    pc,                 \* position of the single thread of control
    err,                \* exception that ended the run ("" while none)
    BASE_URL, API_KEY,  \* class attributes read from the environment
    base_url, headers,  \* self.base_url, self.headers
    mozio,              \* the object the module-level name mozio is bound to
    self,               \* the object the running method was invoked on
    bound,              \* names bound in the __main__ namespace
    search_id, all_poll_results, search_poll_requests_counter,
    main_search_id, all_search_results,
    book_payload,
    reservation_id, reservation_poll_requests_counter,
    poll_reservation_response,
    main_reservation_id, has_been_cancelled,
    printed,            \* what the run reported on the console
    sleeps,             \* number of time.sleep(2) calls per loop
    calls,              \* number of HTTP requests sent per endpoint
    srv                 \* the server's side: its script and what it saw

vars == <<pc, err, BASE_URL, API_KEY, base_url, headers, mozio, self, bound,
          search_id, all_poll_results, search_poll_requests_counter,
          main_search_id, all_search_results, book_payload,
          reservation_id, reservation_poll_requests_counter,
          poll_reservation_response, main_reservation_id, has_been_cancelled,
          printed, sleeps, calls, srv>>

envVars    == <<BASE_URL, API_KEY>>
selfVars   == <<base_url, headers>>
objVars    == <<mozio, self>>
searchVars == <<search_id, all_poll_results, search_poll_requests_counter>>
mainSearchVars == <<main_search_id, all_search_results>>
bookVars   == <<reservation_id, reservation_poll_requests_counter,
                poll_reservation_response>>
cancelVars == <<main_reservation_id, has_been_cancelled>>

-----------------------------------------------------------------------------
(* Bounds of the model *)

MaxOffers == 2          \* offers the server holds for one search
MaxSelect == 4          \* offers in one page, where only the selection runs

-----------------------------------------------------------------------------
(* Values *)

None == "None"

POLL_MAX_REQUESTS == 20

Endpoints == {"search", "poll_search", "book", "poll_reservation", "cancel"}

\* os.getenv: unset (None) or a string, here a sequence of characters.
Unset == [set |-> FALSE, value |-> <<>>]
Str(s) == [set |-> TRUE, value |-> s]

BaseUrlValues == {Unset, Str(<<>>), Str(<<"u", "/", "/">>)}
ApiKeyValues  == {Unset, Str(<<>>), Str(<<"k">>)}

SearchIds == {"s1", "s2"}

Offer(rid, v) == [result_id |-> rid,
                  total_price |-> [total_price |-> [value |-> v]]]
Offers == {Offer("a", "10.0"), Offer("b", "10.00")}

\* The offers of the runs that start at the selection (SpecSelect).
SelectOffers == Offers \cup {Offer("c", "30.0"), Offer("d", "20.0")}

SeqsUpTo(S, n) == UNION {[1..k -> S] : k \in 0..n}

Reservation(i, c) == [id |-> i, confirmation_number |-> c]
TwoReservations == <<Reservation("r2", "c2"), Reservation("r1", "c1")>>
EmptyIdFirst    == <<Reservation("", "c0"), Reservation("r1", "c1")>>

\* "absent" stands for a response body without a status key.
Absent == "<absent>"

PollReservationBody(s, rs) == [status |-> s, reservations |-> rs]

\* The bodies the poll-reservation endpoint answers with.
PollReservationBodies ==
    { PollReservationBody("pending", <<>>),
      PollReservationBody("PENDING", <<>>),
      PollReservationBody("completed", <<>>),
      PollReservationBody("completed", TwoReservations),
      PollReservationBody("completed", EmptyIdFirst),
      PollReservationBody("Completed", TwoReservations),
      PollReservationBody("failed", TwoReservations),
      PollReservationBody("on_hold", <<>>),
      PollReservationBody(Absent, <<>>) }

-----------------------------------------------------------------------------
(* Pure helpers, one per expression of the source *)

\* not X, for X a value of os.getenv
NotSet(x) == ~x.set \/ x.value = <<>>

\* str.rstrip("/")
RECURSIVE RStrip(_)
RStrip(s) == IF s # <<>> /\ s[Len(s)] = "/"
             THEN RStrip(SubSeq(s, 1, Len(s) - 1))
             ELSE s

\* MozioAPIClient.BASE_URL.rstrip("/") + "/"
NormalizeBaseUrl(s) == RStrip(s) \o <<"/">>

\* Variant: the status of the response is never looked at.
NotOkIgnored(ok) == FALSE

\* not response.ok
NotOk(ok) == ~ok

\* Variant: range(1, POLL_MAX_REQUESTS), one poll short.
SearchPollRangeShort == 1..(POLL_MAX_REQUESTS - 1)

\* range(1, POLL_MAX_REQUESTS + 1) of the search loop
SearchPollRange == 1..POLL_MAX_REQUESTS

\* Variant: range(1, POLL_MAX_REQUESTS), one poll short.
ReservationPollRangeShort == 1..(POLL_MAX_REQUESTS - 1)

\* Variant: range(1, POLL_MAX_REQUESTS + 2), one poll too many.
ReservationPollRangeLong == 1..(POLL_MAX_REQUESTS + 1)

\* range(1, POLL_MAX_REQUESTS + 1) of the reservation loop
ReservationPollRange == 1..POLL_MAX_REQUESTS

\* Variant: results already gathered are not added again.
ExtendDedup(all, results) ==
    all \o SelectSeq(results, LAMBDA r : \A i \in 1..Len(all) : all[i] # r)

\* all_poll_results.extend(results)
Extend(all, results) == all \o results

\* Variant: the loop breaks after its first poll whatever more_coming says.
SearchDoneAlways(more_coming) == TRUE

\* not has_more_results
SearchDone(more_coming) == ~more_coming

\* str.lower() on the status values of the model
Lower(s) == CASE s = "PENDING"   -> "pending"
              [] s = "Completed" -> "completed"
              [] OTHER           -> s

\* Variant: the status is compared as the server wrote it.
StatusOfRaw(resp) == IF resp.status = Absent THEN "" ELSE resp.status

\* poll_reservation_response.get("status", "").lower()
StatusOf(resp) == Lower(IF resp.status = Absent THEN "" ELSE resp.status)

\* Variant: a failed reservation is polled again.
IsPendingOrFailed(status) == status \in {"pending", "failed"}

\* Variant: a failed reservation is read like a completed one.
IsCompletedOrFailed(status) == status \in {"completed", "failed"}

\* poll_reservation_status == "pending" / == "completed"
IsPending(status)   == status = "pending"
IsCompleted(status) == status = "completed"

\* Python truthiness of a list / of an Optional[str]
EmptyList(l) == l = <<>>
Falsy(x) == x = None \/ x = ""

\* Variant: the no-results check is left out.
NoResultsUnchecked(results) == FALSE

\* if not all_search_results
NoResults(results) == EmptyList(results)

\* if not reservation_id
SkipCancellation(rid) == Falsy(rid)

\* float(...) on the price strings of the model, in tenths
Float(v) == CASE v = "10.0"  -> 100
              [] v = "10.00" -> 100
              [] v = "20.0"  -> 200
              [] v = "30.0"  -> 300

PriceKey(vehicle) == Float(vehicle.total_price.total_price.value)

\* Variant: a later element with an equal key replaces the one kept.
SmallerOrEqual(k, kept) == k <= kept

\* min() replaces the element it keeps only by one with a smaller key
Smaller(k, kept) == k < kept

\* min(all_search_results, key=...): one pass from the left over a
\* non-empty list, keeping the index of the least key seen so far
RECURSIVE MinScan(_, _, _)
MinScan(results, i, kept) ==
    IF i > Len(results)
    THEN kept
    ELSE MinScan(results, i + 1,
                 IF Smaller(PriceKey(results[i]), PriceKey(results[kept]))
                 THEN i ELSE kept)

CheapestIndex(results) == MinScan(results, 2, 1)

CheapestVehicle(results) == results[CheapestIndex(results)]

\* the fields of book_payload that depend on the run
BookPayload(vehicle, sid) == [result_id |-> vehicle.result_id, search_id |-> sid]

NoPayload == [result_id |-> None, search_id |-> None]
NoResponse == [status |-> Absent, reservations |-> <<>>]

-----------------------------------------------------------------------------
(* Bookkeeping *)

Sent(endpoint) == [calls EXCEPT ![endpoint] = @ + 1]

TotalCalls(c) == c["search"] + c["poll_search"] + c["book"]
                 + c["poll_reservation"] + c["cancel"]

\* An exception propagates out of the program: nothing catches it.
Raise(e) == /\ pc' = "error"
            /\ err' = e

\* The one object MozioAPIClient() creates in a run.
Client == "client"

\* One request as the server sees it: the endpoint, the object whose method
\* was running, the object the request went through, and the URL prefix and
\* headers it was sent with.  order keeps the endpoints in order of first use.
Requested(s, endpoint, receiver, client) ==
    [s EXCEPT !.order = IF @ # <<>> /\ @[Len(@)] = endpoint
                        THEN @ ELSE Append(@, endpoint),
              !.requests = @ \cup {[endpoint |-> endpoint,
                                    receiver |-> receiver,
                                    client |-> client,
                                    base_url |-> base_url,
                                    headers |-> headers]}]

\* The server answered with a non-success status.
Failure(s, endpoint) ==
    [s EXCEPT !.failed = TRUE, !.failed_calls = Sent(endpoint),
              !.failed_endpoint = endpoint]

-----------------------------------------------------------------------------
Init ==
    /\ pc = "start"
    /\ err = ""
    /\ BASE_URL \in BaseUrlValues
    /\ API_KEY \in ApiKeyValues
    /\ base_url = <<>>
    /\ headers = <<>>
    /\ mozio = None
    /\ self = None
    /\ bound = {}
    /\ search_id = None
    /\ all_poll_results = <<>>
    /\ search_poll_requests_counter = 0
    /\ main_search_id = None
    /\ all_search_results = <<>>
    /\ book_payload = NoPayload
    /\ reservation_id = None
    /\ reservation_poll_requests_counter = 0
    /\ poll_reservation_response = NoResponse
    /\ main_reservation_id = None
    /\ has_been_cancelled = FALSE
    /\ printed = [search_polls |-> 0, reservation_polls |-> 0,
                  reservation |-> "", cancellation |-> ""]
    /\ sleeps = [search |-> 0, reservation |-> 0]
    /\ calls = [e \in Endpoints |-> 0]
    /\ srv = [sent |-> <<>>, more_true |-> 0, search_done |-> FALSE,
              search_id |-> None, poll_search_ids |-> {},
              book_requests |-> {}, poll_reservation_ids |-> {},
              cancel_ids |-> {}, order |-> <<>>, requests |-> {},
              answers |-> 0, last_status |-> None, last_reservations |-> <<>>,
              pending_run |-> TRUE,
              failed |-> FALSE, failed_calls |-> [e \in Endpoints |-> 0],
              failed_endpoint |-> None]

-----------------------------------------------------------------------------
(* MozioAPIClient.__init__, called at "mozio = MozioAPIClient()" *)

\* Variant: the API key is not checked.
MissingApiKeyUnchecked == FALSE

MissingBaseUrl == NotSet(BASE_URL)
MissingApiKey  == NotSet(API_KEY)

Construct ==
    /\ pc = "start"
    /\ IF MissingBaseUrl \/ MissingApiKey
       THEN /\ Raise("EnvironmentVariableNotSet")
            /\ UNCHANGED <<selfVars, mozio, bound>>
       ELSE /\ base_url' = NormalizeBaseUrl(BASE_URL.value)
            /\ headers' = <<"API-KEY", API_KEY.value>>
            /\ mozio' = Client
            /\ bound' = bound \cup {"mozio"}
            /\ pc' = "call_search"
            /\ err' = err
    /\ UNCHANGED <<envVars, self, searchVars, mainSearchVars, book_payload,
                   bookVars, cancelVars, printed, sleeps, calls, srv>>

-----------------------------------------------------------------------------
(* search_and_gather_results: self.search(search_payload), lines 117-124 *)

SearchCall ==
    /\ pc = "call_search"
    /\ self' = mozio          \* mozio.search_and_gather_results(...), line 210
    /\ \E ok \in BOOLEAN, sid \in SearchIds :
         /\ calls' = Sent("search")
         /\ IF NotOk(ok)
            THEN /\ Raise("ApiError")
                 /\ UNCHANGED searchVars
            ELSE /\ search_id' = sid
                 /\ all_poll_results' = <<>>
                 /\ search_poll_requests_counter' = 0
                 /\ pc' = "search_loop"
                 /\ err' = err
         /\ srv' = Requested(IF ok THEN [srv EXCEPT !.search_id = sid]
                                    ELSE Failure(srv, "search"),
                              "search", self', self')
    /\ UNCHANGED <<envVars, mozio, selfVars, bound, mainSearchVars,
                   book_payload, bookVars, cancelVars, printed, sleeps>>

\* The server's record of one answered search poll.
SearchPolled(s, sid, results, more_coming) ==
    [s EXCEPT !.sent = @ \o results,
              !.more_true = IF more_coming THEN @ + 1 ELSE @,
              !.search_done = ~more_coming,
              !.poll_search_ids = @ \cup {sid}]

\* Variant: every poll goes through an object of its own.
PollSearchOtherClient == "another client"

\* mozio.poll_search(search_id), line 127: the module-level name, not self
PollSearchClient == mozio

\* self.poll_reservation(search_id), line 163
PollReservationClient == self

\* Variant: the reservation poll is keyed by the booked result.
ReservationPollKeyResult == book_payload.result_id

\* the search_id argument of book_and_get_status (line 233), which keys the
\* reservation poll (line 163)
ReservationPollKey == main_search_id

(* One iteration of the search poll loop, lines 126-135; on break the      *)
(* function returns (line 139) and __main__ binds the pair (line 210).     *)
(* Line 127 polls through the module-level name mozio, which __main__      *)
(* bound to the one instance it constructed before calling this method.    *)
PollSearchStep ==
    /\ pc = "search_loop"
    /\ search_poll_requests_counter + 1 \in SearchPollRange
    /\ \E ok \in BOOLEAN, more_coming \in BOOLEAN,
          results \in SeqsUpTo(Offers, MaxOffers - Len(srv.sent)) :
         /\ ~ok => (results = <<>> /\ ~more_coming)
         /\ search_poll_requests_counter' = search_poll_requests_counter + 1
         /\ calls' = Sent("poll_search")
         /\ srv' = Requested(IF ok THEN SearchPolled(srv, search_id, results,
                                                      more_coming)
                                    ELSE Failure(srv, "poll_search"),
                              "poll_search", self, PollSearchClient)
         /\ IF NotOk(ok)
            THEN /\ Raise("ApiError")
                 /\ UNCHANGED <<all_poll_results, mainSearchVars, bound,
                                printed, sleeps>>
            ELSE /\ all_poll_results' = Extend(all_poll_results, results)
                 /\ err' = err
                 /\ IF SearchDone(more_coming)
                    THEN /\ printed' = [printed EXCEPT !.search_polls =
                                          search_poll_requests_counter']
                         /\ main_search_id' = search_id
                         /\ all_search_results' = all_poll_results'
                         /\ bound' = bound \cup {"search_id", "all_search_results"}
                         /\ pc' = "check_results"
                         /\ sleeps' = sleeps
                    ELSE /\ sleeps' = [sleeps EXCEPT !.search = @ + 1]
                         /\ pc' = pc
                         /\ UNCHANGED <<mainSearchVars, bound, printed>>
    /\ search_id' = search_id
    /\ UNCHANGED <<envVars, objVars, selfVars, book_payload, bookVars, cancelVars>>

(* The else clause of the search loop, lines 136-137 *)
SearchPollLimit ==
    /\ pc = "search_loop"
    /\ search_poll_requests_counter + 1 \notin SearchPollRange
    /\ Raise("SearchPollLimit")
    /\ UNCHANGED <<envVars, objVars, selfVars, bound, searchVars, mainSearchVars,
                   book_payload, bookVars, cancelVars, printed, sleeps, calls,
                   srv>>

-----------------------------------------------------------------------------
(* __main__, lines 211-231: the no-results check, the cheapest vehicle and *)
(* the book payload                                                        *)

CheckResults ==
    /\ pc = "check_results"
    /\ IF NoResults(all_search_results)
       THEN /\ Raise("NoResults")
            /\ UNCHANGED <<book_payload, bound>>
       ELSE IF EmptyList(all_search_results)
       THEN /\ Raise("ValueError")      \* min() of an empty sequence
            /\ UNCHANGED <<book_payload, bound>>
       ELSE /\ book_payload' = BookPayload(CheapestVehicle(all_search_results),
                                           main_search_id)
            /\ bound' = bound \cup {"cheapest_vehicle", "book_payload"}
            /\ pc' = "call_book"
            /\ err' = err
    /\ UNCHANGED <<envVars, objVars, selfVars, searchVars, mainSearchVars, bookVars,
                   cancelVars, printed, sleeps, calls, srv>>

-----------------------------------------------------------------------------
(* book_and_get_status(search_id, book_payload), called at line 233 *)

\* self.book(book_payload) and reservation_id = None, lines 158-161
BookCall ==
    /\ pc = "call_book"
    /\ self' = mozio          \* mozio.book_and_get_status(...), line 233
    /\ \E ok \in BOOLEAN :
         /\ calls' = Sent("book")
         /\ srv' = Requested(IF ok THEN [srv EXCEPT !.book_requests =
                                                       @ \cup {book_payload}]
                                    ELSE Failure(srv, "book"),
                              "book", self', self')
         /\ IF NotOk(ok)
            THEN /\ Raise("ApiError")
                 /\ UNCHANGED bookVars
            ELSE /\ reservation_id' = None
                 /\ reservation_poll_requests_counter' = 0
                 /\ poll_reservation_response' = NoResponse
                 /\ pc' = "reservation_loop"
                 /\ err' = err
    /\ UNCHANGED <<envVars, mozio, selfVars, bound, searchVars, mainSearchVars,
                   book_payload, cancelVars, printed, sleeps>>

\* The server's record of one answered reservation poll.
ReservationPolled(s, sid, body) ==
    [s EXCEPT !.answers = @ + 1,
              !.pending_run = (s.answers = 0)
                              \/ (s.pending_run /\ s.last_status = "pending"),
              !.last_status = body.status,
              !.last_reservations = body.reservations,
              !.poll_reservation_ids = @ \cup {sid}]

\* Variant: the last reservation record is taken.
LastReservation(resp) == resp.reservations[Len(resp.reservations)]

\* poll_reservation_response["reservations"][0]
FirstReservation(resp) == resp.reservations[1]

\* return reservation_id (line 190) and its binding in __main__ (line 233)
ReturnReservation(rid) ==
    /\ main_reservation_id' = rid
    /\ bound' = bound \cup {"reservation_id"}
    /\ pc' = "cancel_step"
    /\ err' = err

(* One iteration of the reservation poll loop, lines 162-187 *)
PollReservationStep ==
    /\ pc = "reservation_loop"
    /\ reservation_poll_requests_counter + 1 \in ReservationPollRange
    /\ \E ok \in BOOLEAN, body \in PollReservationBodies :
         /\ ~ok => body = PollReservationBody(Absent, <<>>)
         /\ reservation_poll_requests_counter' =
                reservation_poll_requests_counter + 1
         /\ calls' = Sent("poll_reservation")
         /\ srv' = Requested(IF ok THEN ReservationPolled(srv, ReservationPollKey,
                                                           body)
                                    ELSE Failure(srv, "poll_reservation"),
                              "poll_reservation", self, PollReservationClient)
         /\ IF NotOk(ok)
            THEN /\ Raise("ApiError")
                 /\ UNCHANGED <<poll_reservation_response, reservation_id,
                                main_reservation_id, bound, printed, sleeps>>
            ELSE /\ poll_reservation_response' = body
                 /\ IF IsPending(StatusOf(body))
                    THEN /\ sleeps' = [sleeps EXCEPT !.reservation = @ + 1]
                         /\ pc' = pc
                         /\ err' = err
                         /\ UNCHANGED <<reservation_id, main_reservation_id,
                                        bound, printed>>
                    ELSE IF IsCompleted(StatusOf(body))
                    THEN IF EmptyList(body.reservations)
                         THEN /\ Raise("IndexError")
                              /\ UNCHANGED <<reservation_id, main_reservation_id,
                                             bound, printed, sleeps>>
                         ELSE /\ reservation_id' = FirstReservation(body).id
                              /\ printed' = [printed EXCEPT
                                    !.reservation_polls =
                                        reservation_poll_requests_counter',
                                    !.reservation = "Done"]
                              /\ ReturnReservation(reservation_id')
                              /\ sleeps' = sleeps
                    ELSE /\ printed' = [printed EXCEPT !.reservation = "Failed"]
                         /\ reservation_id' = reservation_id
                         /\ ReturnReservation(reservation_id)
                         /\ sleeps' = sleeps
    /\ UNCHANGED <<envVars, objVars, selfVars, searchVars, mainSearchVars, book_payload,
                   has_been_cancelled>>

(* The else clause of the reservation loop, lines 188-189 *)
ReservationPollLimit ==
    /\ pc = "reservation_loop"
    /\ reservation_poll_requests_counter + 1 \notin ReservationPollRange
    /\ Raise("ReservationPollLimit")
    /\ UNCHANGED <<envVars, objVars, selfVars, bound, searchVars, mainSearchVars,
                   book_payload, bookVars, cancelVars, printed, sleeps, calls,
                   srv>>

-----------------------------------------------------------------------------
(* __main__, lines 236-244: the cancellation step *)

SkipCancel ==
    /\ pc = "cancel_step"
    /\ SkipCancellation(main_reservation_id)
    /\ printed' = [printed EXCEPT !.cancellation = "Skipping"]
    /\ pc' = "done"
    /\ UNCHANGED <<err, envVars, objVars, selfVars, bound, searchVars, mainSearchVars,
                   book_payload, bookVars, cancelVars, sleeps, calls, srv>>

\* Variant: cancel falls off its end and returns None.
CancelReturnsNothing == FALSE

\* return True, line 99
CancelReturnValue == TRUE

\* mozio.cancel(reservation_id), lines 88-99, and the report, lines 241-244
Cancel ==
    /\ pc = "cancel_step"
    /\ ~SkipCancellation(main_reservation_id)
    /\ self' = mozio          \* mozio.cancel(reservation_id), line 240
    /\ \E ok \in BOOLEAN :
         /\ calls' = Sent("cancel")
         /\ srv' = Requested(IF ok THEN [srv EXCEPT !.cancel_ids =
                                                       @ \cup {main_reservation_id}]
                                    ELSE Failure(srv, "cancel"),
                              "cancel", self', self')
         /\ IF NotOk(ok)
            THEN /\ Raise("ApiError")
                 /\ UNCHANGED <<has_been_cancelled, bound, printed>>
            ELSE /\ has_been_cancelled' = CancelReturnValue
                 /\ bound' = bound \cup {"has_been_cancelled"}
                 /\ printed' = [printed EXCEPT !.cancellation =
                                  IF has_been_cancelled' THEN "Done" ELSE "Failed"]
                 /\ pc' = "done"
                 /\ err' = err
    /\ UNCHANGED <<envVars, mozio, selfVars, searchVars, mainSearchVars,
                   book_payload, bookVars, main_reservation_id, sleeps>>

-----------------------------------------------------------------------------
Next ==
    \/ Construct
    \/ SearchCall
    \/ PollSearchStep
    \/ SearchPollLimit
    \/ CheckResults
    \/ BookCall
    \/ PollReservationStep
    \/ ReservationPollLimit
    \/ SkipCancel
    \/ Cancel

Spec == Init /\ [][Next]_vars

\* The single thread of control always takes its next step: every HTTP call
\* returns (timeout=10) and every sleep ends.
FairSpec == Spec /\ WF_vars(Next)

-----------------------------------------------------------------------------
(* The runs from the selection on: the state at line 211 of a run whose    *)
(* first search poll answered more_coming = false with one page of offers, *)
(* followed by the selection and the book request.                         *)

SelectStart(results, sid) ==
    /\ pc = "check_results"
    /\ err = ""
    /\ BASE_URL = Str(<<"u", "/", "/">>)
    /\ API_KEY = Str(<<"k">>)
    /\ base_url = <<"u", "/">>
    /\ headers = <<"API-KEY", <<"k">>>>
    /\ mozio = Client
    /\ self = Client
    /\ bound = {"mozio", "search_id", "all_search_results"}
    /\ search_id = sid
    /\ all_poll_results = results
    /\ search_poll_requests_counter = 1
    /\ main_search_id = sid
    /\ all_search_results = results
    /\ book_payload = NoPayload
    /\ reservation_id = None
    /\ reservation_poll_requests_counter = 0
    /\ poll_reservation_response = NoResponse
    /\ main_reservation_id = None
    /\ has_been_cancelled = FALSE
    /\ printed = [search_polls |-> 1, reservation_polls |-> 0,
                  reservation |-> "", cancellation |-> ""]
    /\ sleeps = [search |-> 0, reservation |-> 0]
    /\ calls = [e \in Endpoints |->
                  IF e \in {"search", "poll_search"} THEN 1 ELSE 0]
    /\ srv = [sent |-> results, more_true |-> 0, search_done |-> TRUE,
              search_id |-> sid, poll_search_ids |-> {sid},
              book_requests |-> {}, poll_reservation_ids |-> {},
              cancel_ids |-> {},
              order |-> <<"search", "poll_search">>,
              requests |-> {[endpoint |-> e, receiver |-> Client,
                             client |-> Client, base_url |-> <<"u", "/">>,
                             headers |-> <<"API-KEY", <<"k">>>>] :
                            e \in {"search", "poll_search"}},
              answers |-> 0, last_status |-> None, last_reservations |-> <<>>,
              pending_run |-> TRUE,
              failed |-> FALSE, failed_calls |-> [e \in Endpoints |-> 0],
              failed_endpoint |-> None]

InitSelect ==
    \E results \in SeqsUpTo(SelectOffers, MaxSelect), sid \in SearchIds :
        SelectStart(results, sid)

NextSelect ==
    \/ CheckResults
    \/ BookCall

SpecSelect == InitSelect /\ [][NextSelect]_vars

-----------------------------------------------------------------------------
(* Properties *)

EnvMissing(x) == ~x.set \/ x.value = <<>>

\* book_and_get_status returned and __main__ holds its result.
ReservationReturned == "reservation_id" \in bound

(* C1: when the server answered more_coming = true on k polls (k < 20) and *)
(* more_coming = false on poll k+1, search_and_gather_results has returned *)
(* the search_id the server issued together with exactly what the server   *)
(* sent over the k+1 polls, in order and with repetitions, and the number  *)
(* of polls it reported is k+1.                                            *)
C1_SearchGathersAll ==
    (srv.search_done /\ srv.more_true < 20) =>
        /\ {"search_id", "all_search_results"} \subseteq bound
        /\ main_search_id = srv.search_id
        /\ all_search_results = srv.sent
        /\ printed.search_polls = srv.more_true + 1
        /\ calls["poll_search"] = srv.more_true + 1

C1_Witness ==
    /\ srv.search_done
    /\ srv.more_true = 19
    /\ Len(srv.sent) = 2
    /\ srv.sent[1] = srv.sent[2]
    /\ all_search_results = srv.sent
    /\ printed.search_polls = 20

(* C2: after 20 search polls answered more_coming = true the search fails  *)
(* with the poll-limit error: exactly 20 poll requests were sent, a 21st   *)
(* cannot be sent, no result is bound in __main__, and the poll-limit      *)
(* error is never raised before the 20th poll.                             *)
C2_SearchBudget ==
    /\ calls["poll_search"] <= 20
    /\ srv.more_true = 20 =>
          /\ calls["poll_search"] = 20
          /\ "all_search_results" \notin bound
          /\ pc \in {"search_loop", "error"}
          /\ pc = "search_loop" => (ENABLED SearchPollLimit
                                    /\ ~ENABLED PollSearchStep)
          /\ pc = "error" => err = "SearchPollLimit"
    /\ err = "SearchPollLimit" =>
          (srv.more_true = 20 /\ calls["poll_search"] = 20)

C2_Witness ==
    /\ pc = "error"
    /\ err = "SearchPollLimit"
    /\ calls["poll_search"] = 20

(* C3: when the reservation status was "pending" on k polls (k < 20) and   *)
(* "completed" on poll k+1 with a non-empty reservations list,             *)
(* book_and_get_status has returned the id of the first reservation after  *)
(* exactly k+1 polls, and no poll follows.                                 *)
C3_CompletedReturnsFirstId ==
    ( /\ srv.answers > 0
      /\ srv.pending_run
      /\ srv.last_status = "completed"
      /\ srv.last_reservations # <<>> ) =>
        /\ ReservationReturned
        /\ main_reservation_id = srv.last_reservations[1].id
        /\ calls["poll_reservation"] = srv.answers
        /\ printed.reservation_polls = srv.answers

C3_Witness ==
    /\ srv.answers = 3
    /\ srv.pending_run
    /\ srv.last_status = "completed"
    /\ srv.last_reservations = TwoReservations
    /\ main_reservation_id = "r2"
    /\ pc = "done"

(* C4: when the reservation status was "failed" on poll j, after j-1       *)
(* "pending" polls, book_and_get_status has returned None at that poll:    *)
(* no poll follows, the loop slept only after the j-1 pending polls, and   *)
(* no error is raised.                                                     *)
C4_FailedReturnsNone ==
    ( /\ srv.answers > 0
      /\ srv.pending_run
      /\ srv.last_status = "failed" ) =>
        /\ ReservationReturned
        /\ main_reservation_id = None
        /\ calls["poll_reservation"] = srv.answers
        /\ sleeps["reservation"] = srv.answers - 1
        /\ err = ""
        /\ pc \in {"cancel_step", "done"}

C4_Witness ==
    /\ srv.answers = 1
    /\ srv.last_status = "failed"
    /\ main_reservation_id = None
    /\ sleeps["reservation"] = 0
    /\ pc = "done"

(* C5: in a run that got past book_and_get_status, the cancel endpoint was *)
(* called exactly once when the function returned a reservation id and     *)
(* not at all when it returned None.                                       *)
C5_CancelIffOutcome ==
    (ReservationReturned /\ pc \in {"done", "error"}) =>
        /\ main_reservation_id # None => calls["cancel"] = 1
        /\ main_reservation_id = None => calls["cancel"] = 0

(* C6, as claimed: book_and_get_status returns a reservation id exactly    *)
(* when the last polled status was "completed".                            *)
C6_IdIffCompletedExact ==
    ReservationReturned =>
        (main_reservation_id # None <=> srv.last_status = "completed")

(* C6, amended: book_and_get_status returns a reservation id exactly when  *)
(* the last polled status, lower-cased, is "completed".                    *)
C6_IdIffCompletedLowered ==
    ReservationReturned =>
        /\ srv.answers > 0
        /\ main_reservation_id # None <=> Lower(srv.last_status) = "completed"

C6_Witness ==
    /\ ReservationReturned
    /\ srv.last_status = "Completed"
    /\ main_reservation_id = "r2"

(* C7: when the status is completed and the reservations list is empty,    *)
(* the run fails with the error designated for it, no reservation id is    *)
(* returned and cancel is not called.                                      *)
C7_EmptyReservationList ==
    ( /\ srv.answers > 0
      /\ Lower(srv.last_status) = "completed"
      /\ srv.last_reservations = <<>> ) =>
        /\ pc = "error"
        /\ err = "EmptyReservationList"
        /\ ~ReservationReturned
        /\ calls["cancel"] = 0

(* C8: when the base URL or the API key is missing, construction fails     *)
(* with the configuration error and no HTTP request is ever sent.          *)
C8_MissingConfiguration ==
    (EnvMissing(BASE_URL) \/ EnvMissing(API_KEY)) =>
        /\ TotalCalls(calls) = 0
        /\ "mozio" \notin bound
        /\ pc \in {"start", "error"}
        /\ pc = "error" => err = "EnvironmentVariableNotSet"

C8_Witness ==
    /\ ~EnvMissing(BASE_URL)
    /\ ~API_KEY.set
    /\ pc = "error"
    /\ err = "EnvironmentVariableNotSet"
    /\ TotalCalls(calls) = 0

(* C9: once the server has answered a request with a non-success status,   *)
(* the run has failed with the API error and no request is sent after the  *)
(* failed one, whichever of the five endpoints it was.                     *)
C9_FailurePropagates ==
    srv.failed =>
        /\ pc = "error"
        /\ err = "ApiError"
        /\ calls = srv.failed_calls

C9_Witness ==
    /\ srv.failed
    /\ srv.failed_endpoint = "poll_reservation"
    /\ calls["poll_reservation"] = 3
    /\ calls["poll_search"] = 2
    /\ pc = "error"

(* C10: when the search ended within the budget and the server sent no     *)
(* offer at all, the run stops with the no-results error and the book,     *)
(* poll-reservation and cancel endpoints are never called.                 *)
C10_NoOffersAborts ==
    (srv.search_done /\ srv.sent = <<>>) =>
        /\ pc \in {"check_results", "error"}
        /\ pc = "error" => err = "NoResults"
        /\ calls["book"] = 0
        /\ calls["poll_reservation"] = 0
        /\ calls["cancel"] = 0

C10_Witness ==
    /\ srv.search_done
    /\ srv.sent = <<>>
    /\ srv.more_true = 2
    /\ pc = "error"
    /\ err = "NoResults"

(* C11: after 20 reservation polls that all answered "pending" the run     *)
(* fails with the reservation poll-limit error: exactly 20 polls were      *)
(* sent, a 21st cannot be sent, no reservation id is returned, cancel is   *)
(* never called, and the error is never raised before the 20th poll.       *)
C11_ReservationBudget ==
    /\ calls["poll_reservation"] <= 20
    /\ (srv.answers = 20 /\ srv.pending_run /\ srv.last_status = "pending") =>
          /\ calls["poll_reservation"] = 20
          /\ ~ReservationReturned
          /\ main_reservation_id = None
          /\ calls["cancel"] = 0
          /\ pc \in {"reservation_loop", "error"}
          /\ pc = "reservation_loop" => (ENABLED ReservationPollLimit
                                         /\ ~ENABLED PollReservationStep)
          /\ pc = "error" => err = "ReservationPollLimit"
    /\ err = "ReservationPollLimit" =>
          /\ srv.answers = 20
          /\ calls["poll_reservation"] = 20
          /\ calls["cancel"] = 0
          /\ pc = "error"

C11_Witness ==
    /\ pc = "error"
    /\ err = "ReservationPollLimit"
    /\ srv.answers = 20
    /\ srv.pending_run
    /\ srv.last_status = "pending"
    /\ calls["cancel"] = 0

\* The least index among the offers of least numeric price.
StableMinIndex(results) ==
    CHOOSE i \in 1..Len(results) :
        /\ \A j \in 1..Len(results) : PriceKey(results[i]) <= PriceKey(results[j])
        /\ \A j \in 1..(i - 1) : PriceKey(results[j]) > PriceKey(results[i])

(* C12: once the book payload is built, its result_id is that of the offer *)
(* with the least numeric total price and, among those, the least index in *)
(* the gathered sequence; every book request the server receives carries   *)
(* that payload.                                                           *)
C12_StableMinimum ==
    "book_payload" \in bound =>
        /\ all_search_results = srv.sent
        /\ book_payload.result_id =
              all_search_results[StableMinIndex(all_search_results)].result_id
        /\ srv.book_requests \subseteq {book_payload}

C12_Witness ==
    /\ all_search_results = <<Offer("c", "30.0"), Offer("a", "10.0"),
                              Offer("b", "10.00"), Offer("d", "20.0")>>
    /\ book_payload.result_id = "a"
    /\ srv.book_requests = {book_payload}
    /\ calls["book"] = 1

\* Every run of Spec that reaches line 211 after one poll is a run SpecSelect
\* starts from.
SelectStartReached ==
    (pc = "check_results" /\ search_poll_requests_counter = 1) =>
        SelectStart(all_search_results, main_search_id)

\* The status values of the model by their lower-cased form.
PendingLike   == {"pending", "PENDING"}
CompletedLike == {"completed", "Completed"}

C14_CancelTrueOrRaise ==
    /\ printed.cancellation # "Failed"
    /\ "has_been_cancelled" \in bound => has_been_cancelled
    /\ calls["cancel"] > 0 =>
          /\ srv.cancel_ids # {} \/ srv.failed_endpoint = "cancel"
          /\ srv.cancel_ids # {} =>
                /\ "has_been_cancelled" \in bound
                /\ has_been_cancelled
                /\ printed.cancellation = "Done"
                /\ pc = "done"
          /\ srv.failed_endpoint = "cancel" =>
                /\ "has_been_cancelled" \notin bound
                /\ ~has_been_cancelled
                /\ pc = "error"
                /\ err = "ApiError"

C14_Witness ==
    /\ calls["cancel"] = 1
    /\ srv.failed_endpoint = "cancel"
    /\ pc = "error"
    /\ err = "ApiError"
    /\ printed.cancellation = ""

Workflow == <<"search", "poll_search", "book", "poll_reservation", "cancel">>

IsPrefix(s, t) == Len(s) <= Len(t) /\ s = SubSeq(t, 1, Len(s))

\* The order of the phases and the number of requests of each.
PhaseOrder ==
    /\ IsPrefix(srv.order, Workflow)
    /\ \A e \in Endpoints :
          calls[e] > 0 <=> \E i \in 1..Len(srv.order) : srv.order[i] = e
    /\ calls["search"] <= 1
    /\ calls["poll_search"] <= 20
    /\ calls["book"] <= 1
    /\ calls["poll_reservation"] <= 20
    /\ calls["cancel"] <= 1
    /\ calls["book"] > 0 =>
          (srv.search_done /\ calls["poll_search"] = srv.more_true + 1)
    /\ calls["cancel"] > 0 =>
          (srv.answers > 0 /\ calls["poll_reservation"] = srv.answers)

(* C15, as claimed: the requests of a run are sent in the order search,    *)
(* search polls, book, reservation polls, cancel, each phase at most once  *)
(* and with at most 20 polls; book only after a search poll answered       *)
(* more_coming = false, and cancel only after a reservation poll answered  *)
(* the status "completed".                                                 *)
C15_PhaseOrderExact ==
    /\ PhaseOrder
    /\ calls["cancel"] > 0 => srv.last_status = "completed"

(* C15, amended: as above, with cancel only after a reservation poll       *)
(* answered a status that lower-cases to "completed".                      *)
C15_PhaseOrderLowered ==
    /\ PhaseOrder
    /\ calls["cancel"] > 0 => srv.last_status \in CompletedLike

C15_Witness ==
    /\ srv.order = Workflow
    /\ calls["poll_search"] = 2
    /\ calls["poll_reservation"] = 2
    /\ srv.last_status = "Completed"
    /\ pc = "done"

(* C16: in both loops a sleep follows only a poll that continues the loop: *)
(* a loop that ended on its n-th poll has slept n-1 times, and a loop that *)
(* used up its 20 polls raises without a sleep after the 20th poll, that   *)
(* is after 19 sleeps.                                                     *)
C16_SleepOnlyBetweenPolls ==
    /\ sleeps["search"] <= srv.more_true
    /\ sleeps["reservation"] <= srv.answers
    /\ srv.search_done => sleeps["search"] = calls["poll_search"] - 1
    /\ ReservationReturned => sleeps["reservation"] = srv.answers - 1
    /\ err = "SearchPollLimit" => sleeps["search"] = 19
    /\ err = "ReservationPollLimit" => sleeps["reservation"] = 19

\* What the code does: one sleep after every continuing poll, the 20th too.
SleepAfterEveryContinuingPoll ==
    /\ sleeps["search"] = srv.more_true
    /\ srv.search_done => sleeps["search"] = calls["poll_search"] - 1
    /\ ReservationReturned => sleeps["reservation"] = srv.answers - 1
    /\ err = "SearchPollLimit" => sleeps["search"] = 20
    /\ err = "ReservationPollLimit" => sleeps["reservation"] = 20

(* C17: every search poll, the search_id field of the book request and     *)
(* every reservation poll carry the search_id that the search call of the  *)
(* run returned, and the result_id of the book request is the result_id of *)
(* an offer gathered for that search.                                      *)
C17_SingleSearchId ==
    /\ srv.poll_search_ids \subseteq {srv.search_id}
    /\ srv.poll_reservation_ids \subseteq {srv.search_id}
    /\ srv.search_done => srv.poll_search_ids = {srv.search_id}
    /\ srv.answers > 0 => srv.poll_reservation_ids = {srv.search_id}
    /\ srv.answers > 0 => srv.book_requests # {}
    /\ \A b \in srv.book_requests :
          /\ b.search_id = srv.search_id
          /\ \E i \in 1..Len(srv.sent) : srv.sent[i].result_id = b.result_id

C17_Witness ==
    /\ srv.search_id = "s2"
    /\ srv.more_true = 1
    /\ srv.poll_search_ids = {"s2"}
    /\ srv.answers = 2
    /\ srv.poll_reservation_ids = {"s2"}
    /\ \E b \in srv.book_requests : b.search_id = "s2" /\ b.result_id = "b"

Terminated == pc \in {"done", "error"}

\* The three ways a run ends.
Outcome ==
    \/ pc = "done" /\ printed.cancellation = "Done" /\ err = ""
    \/ pc = "done" /\ printed.cancellation = "Skipping" /\ err = ""
    \/ pc = "error" /\ err # ""

(* C19: when every HTTP call returns, every run ends, cancelled, with the  *)
(* cancellation skipped or failed with an error, and it never sends more   *)
(* than 43 HTTP requests.                                                  *)
C19_Terminates ==
    /\ [](TotalCalls(calls) <= 43)
    /\ [](Terminated => (Outcome /\ ~ENABLED Next))
    /\ <>Terminated

C19_Witness ==
    /\ pc = "done"
    /\ printed.cancellation = "Done"
    /\ TotalCalls(calls) = 43

====
